---- MODULE Spec2Model ----
(***************************************************************************)
(* Signature record lifecycle (signatureSchema: verify, revoke, the        *)
(* pre-save audit hook, the virtuals, calculateDocumentHash) and the       *)
(* stateless DigitalSignature (signDocument, verifySignature,              *)
(* canonicalizeDocument, createDocumentHash) of darkdlink/n3.              *)
(*                                                                         *)
(* A record lives in the store (db) and in in-memory copies (mem[h]), one  *)
(* per handler that loaded it.  A method call works on its copy and ends   *)
(* with save(), which runs the pre-save hook and then writes the copy's    *)
(* modified paths ($set status / revocation, $push of the array elements   *)
(* pushed since the copy was last in sync) to the store.                   *)
(***************************************************************************)
EXTENDS Naturals, Sequences, FiniteSets, TLC

\* ---- bounds -------------------------------------------------------------
MaxHist == 2      \* longest verifications / auditTrail sequence explored
MaxNow == 2       \* the clock runs 1..MaxNow
NumCopies == 2    \* in-memory copies of the record

\* ---- value domains ------------------------------------------------------
NoVal == "none"                   \* undefined / null
NoDate == 0                       \* an absent Date; the clock starts at 1
NoRevocation ==
  [revokedAt |-> NoDate, revokedBy |-> NoVal, reason |-> NoVal, details |-> NoVal]
Copies == 1..NumCopies
Users == {"u1", "u2"}
Methods == {"automatic"}
RevokeReasons == {"key_compromise"}
RevokeDetails == {"d1"}
PubKeys == {"BADPEM", "K1", "K2"} \* unparseable PEM, the signer's key, another key
Hashes == {"H1", "H2"}            \* H1 is the hash stored at signing time
Statuses == {"valid", "invalid", "revoked", "expired", "pending_verification"}
ReasonAuto == "Verificacao automatica da assinatura"
ReasonError == "Erro na verificacao da assinatura"

VARIABLES
  cfg,     \* the record's immutable fields: publicKey, digitalSignature, documentHash, certificate, timestampToken
  env,     \* the crypto build: does createVerify know the digest name
  db,      \* the persisted record: status, verifications, auditTrail, revocation
  mem,     \* mem[h]: the in-memory document of handler h
  now,     \* the clock (new Date(), Date.now)
  handlers,\* the handlers that run: handlers[h] is the user handler h acts for
  last,    \* the last completed call: its arguments, inputs and what it saw before
  coll,    \* the signatures collection and the creations in flight
  acct,    \* the stored user account and the login requests in flight
  exp      \* the stored expense and its in-memory document

vars == <<cfg, env, db, mem, now, handlers, last, coll, acct, exp>>

\* A part of the system that takes no part in a specification.
NotUsed == [used |-> FALSE]
Elsewhere == coll = NotUsed /\ acct = NotUsed /\ exp = NotUsed

\* ---- crypto -------------------------------------------------------------
\* A signature is the pair (signing key, signed hash); Garbage decodes to
\* bytes that verify under no key.
SignOf(key, hash) == [kind |-> "sig", key |-> key, hash |-> hash]
Garbage == [kind |-> "garbage"]

\* A verification that accepts a signature made by any parseable key.
CryptoVerify_AnyKey(pubKey, data, sig) ==
  IF pubKey \notin {"K1", "K2"} \/ sig.kind = "undefined" THEN "throw"
  ELSE IF sig.kind = "sig" /\ sig.hash = data THEN "true"
  ELSE "false"

\* crypto.createPublicKey / verify.verify: throws on an unparseable or missing
\* key and on a signature that is not a string, else tells whether sig was made by that key over that data.
CryptoVerify(pubKey, data, sig) ==
  IF pubKey \notin {"K1", "K2"} \/ sig.kind = "undefined" THEN "throw"
  ELSE IF sig.kind = "sig" /\ sig.key = pubKey /\ sig.hash = data THEN "true"
  ELSE "false"

\* ---- the pre-save hook and save() --------------------------------------
AuditAction(status) ==
  IF status = "valid" THEN "verified"
  ELSE IF status = "invalid" THEN "invalidated"
  ELSE IF status = "revoked" THEN "revoked"
  ELSE "created"

\* A hook that assigns the trail instead of pushing onto it.
PushAudit_Replace(trail, entry) == <<entry>>

PushAudit(trail, entry) == Append(trail, entry)

PreSave(d, t) ==
  IF d.modStatus /\ ~d.isNew
  THEN [d EXCEPT !.auditTrail =
          PushAudit(@, [action |-> AuditAction(d.status),
                        performedBy |-> d.performedBy,
                        timestamp |-> t,
                        reason |-> d.actionReason,
                        details |-> d.actionDetails])]
  ELSE d

PushedSince(s, n) == SubSeq(s, n + 1, Len(s))

\* The write of save(): modified paths only; an array that was sorted in
\* place is written whole ($set), one that was only pushed onto sends its
\* new entries ($push).
WriteDelta(store, d) ==
  [status        |-> IF d.modStatus THEN d.status ELSE store.status,
   revocation    |-> IF d.modRevocation THEN d.revocation ELSE store.revocation,
   verifications |-> IF d.modVerifications THEN d.verifications
                     ELSE store.verifications \o PushedSince(d.verifications, d.savedV),
   auditTrail    |-> store.auditTrail \o PushedSince(d.auditTrail, d.savedA)]

\* save(): the hook runs first; a failed write leaves the store alone and the
\* document modified.  Returns the document, the store and whether it threw.
Save(d, store, ok, t) ==
  LET h == PreSave(d, t) IN
  IF ok
  THEN [doc   |-> [h EXCEPT !.modStatus = FALSE, !.modRevocation = FALSE,
                            !.modVerifications = FALSE,
                            !.savedV = Len(h.verifications),
                            !.savedA = Len(h.auditTrail)],
        store |-> WriteDelta(store, h),
        threw |-> FALSE]
  ELSE [doc |-> h, store |-> store, threw |-> TRUE]

\* Assigning a path marks it modified when the value differs or the path is
\* already modified.
SetStatus(d, s) ==
  [d EXCEPT !.status = s, !.modStatus = @ \/ d.status # s]

\* ---- loading -----------------------------------------------------------
Unloaded ==
  [loaded |-> FALSE, isNew |-> FALSE, status |-> NoVal,
   verifications |-> <<>>, auditTrail |-> <<>>, revocation |-> NoRevocation,
   performedBy |-> NoVal, actionReason |-> NoVal, actionDetails |-> NoVal,
   modStatus |-> FALSE, modRevocation |-> FALSE, modVerifications |-> FALSE,
   savedV |-> 0, savedA |-> 0]

Hydrate(store) ==
  [loaded |-> TRUE, isNew |-> FALSE, status |-> store.status,
   verifications |-> store.verifications, auditTrail |-> store.auditTrail,
   revocation |-> store.revocation,
   performedBy |-> NoVal, actionReason |-> NoVal, actionDetails |-> NoVal,
   modStatus |-> FALSE, modRevocation |-> FALSE, modVerifications |-> FALSE,
   savedV |-> Len(store.verifications), savedA |-> Len(store.auditTrail)]

NoCall == [op |-> "none"]

\* The records explored: a well-formed one with certificate and timestamp
\* token, one without either, one whose key is not the signer's, one whose key
\* does not parse.
Record(key, validTo, token) ==
  [publicKey |-> key, digitalSignature |-> SignOf("K1", "H1"),
   documentHash |-> "H1", validTo |-> validTo, timestampToken |-> token]

Records ==
  {Record("K1", 2, "tok"), Record("K1", NoDate, NoVal),
   Record("K2", 2, NoVal), Record("BADPEM", 2, NoVal)}

\* The hash embedded in a timestamp token: "tok" was issued over the
\* record's documentHash, "forged" carries another hash.
EmbeddedHash(token) == IF token = "tok" THEN "H1" ELSE "H2"

Pending ==
  [status |-> "pending_verification", verifications |-> <<>>,
   auditTrail |-> <<>>, revocation |-> NoRevocation]

Init ==
  /\ cfg \in Records
  /\ env \in [digestKnown : BOOLEAN]
  /\ (~env.digestKnown) => cfg = Record("K1", 2, "tok")
  /\ db = Pending
  /\ mem = [h \in Copies |-> Unloaded]
  /\ now = 1
  /\ handlers \in [{1} -> Users]
  /\ last = NoCall
  /\ Elsewhere

\* Two handlers work on the same record at once.
InitConc ==
  /\ cfg \in {Record("K1", 2, "tok"), Record("K2", 2, NoVal)}
  /\ env = [digestKnown |-> TRUE]
  /\ db = Pending
  /\ mem = [h \in Copies |-> Unloaded]
  /\ now = 1
  /\ handlers \in [Copies -> Users]
  /\ last = NoCall
  /\ Elsewhere

\* Signature.findById: a handler gets a fresh document from the store.
Load(h) ==
  /\ mem' = [mem EXCEPT ![h] = Hydrate(db)]
  /\ last' = [op |-> "load", h |-> h]
  /\ UNCHANGED <<cfg, env, db, now, handlers, coll, acct, exp>>

Tick ==
  /\ now < MaxNow
  /\ now' = now + 1
  /\ last' = [op |-> "tick"]
  /\ UNCHANGED <<cfg, env, db, mem, handlers, coll, acct, exp>>

\* ---- verify() ----------------------------------------------------------
\* createPublicKey, createVerify(algorithm.replace('with','')) and
\* verify.verify over this.documentHash.
SigCheck(c, e) ==
  IF ~e.digestKnown THEN "throw"
  ELSE CryptoVerify(c.publicKey, c.documentHash, c.digitalSignature)

\* Expense.findById + calculateDocumentHash: docHash is the hash of the
\* document the provider returns now, NoVal when it returns null.
DocCheck(c, docHash) ==
  IF docHash = NoVal THEN "throw"
  ELSE IF docHash = c.documentHash THEN "true" ELSE "false"

\* this.certificate is a nested path, always an object; a missing validTo
\* compares false with any date.
CertCheck(c, t) == c.validTo # NoDate /\ c.validTo > t

\* signatureSchema.methods.verifyTimestamp
VerifyTimestampRecord(c) ==
  IF c.timestampToken = NoVal \/ c.timestampToken = "" THEN TRUE
  ELSE c.timestampToken # ""

TimestampCheck(c) ==
  IF c.timestampToken # NoVal /\ c.timestampToken # ""
  THEN VerifyTimestampRecord(c) ELSE TRUE

\* The checks of the try block up to isTimestampValid, in order; the first
\* exception ends them.
Evidence(c, e, docHash, t) ==
  LET sig == SigCheck(c, e)
      doc == DocCheck(c, docHash)
  IN IF sig = "throw"
     THEN [threw |-> TRUE, error |-> "crypto", sigComputed |-> FALSE, sig |-> FALSE]
     ELSE IF doc = "throw"
     THEN [threw |-> TRUE, error |-> "document", sigComputed |-> TRUE, sig |-> sig = "true"]
     ELSE [threw |-> FALSE,
           signatureValid |-> sig = "true",
           documentIntact |-> doc = "true",
           certificateValid |-> CertCheck(c, t),
           timestampValid |-> TimestampCheck(c)]

\* A combination that leaves the certificate check out.
Combine_NoCertificate(ev) ==
  ev.signatureValid /\ ev.documentIntact /\ ev.timestampValid

Combine(ev) ==
  ev.signatureValid /\ ev.documentIntact /\ ev.certificateValid /\ ev.timestampValid

PushVerification(vs, entry) == Append(vs, entry)

TryEntry(ev, by, method, t) ==
  [verifiedAt |-> t, verifiedBy |-> by,
   result |-> IF Combine(ev) THEN "valid" ELSE "invalid",
   method |-> method,
   signatureValid |-> ev.signatureValid,
   certificateValid |-> ev.certificateValid,
   timestampValid |-> ev.timestampValid,
   documentIntact |-> ev.documentIntact,
   errors |-> <<>>]

CatchEntry(ev, err, by, method, t) ==
  [verifiedAt |-> t, verifiedBy |-> by, result |-> "invalid", method |-> method,
   signatureValid |-> FALSE, certificateValid |-> FALSE,
   timestampValid |-> FALSE, documentIntact |-> FALSE,
   errors |-> <<err>>]

\* The status update of the try block.
TryStatus(d, isValid, by) ==
  IF d.status = "pending_verification"
  THEN [SetStatus(d, IF isValid THEN "valid" ELSE "invalid")
          EXCEPT !.performedBy = by, !.actionReason = ReasonAuto]
  ELSE d

\* The status update of the catch block.
CatchStatus(d, err, by) ==
  [SetStatus(d, "invalid")
     EXCEPT !.performedBy = by, !.actionReason = ReasonError,
            !.actionDetails = err]

CatchBlock(d, store, ev, err, by, method, ok, t) ==
  LET d1 == [d EXCEPT !.verifications =
                 PushVerification(@, CatchEntry(ev, err, by, method, t))]
  IN Save(CatchStatus(d1, err, by), store, ok, t)

\* The whole method: the document, the store, and whether the call rejected.
VerifyCall(d, store, c, e, by, method, docHash, ok1, ok2, t) ==
  LET ev == Evidence(c, e, docHash, t) IN
  IF ev.threw THEN CatchBlock(d, store, ev, ev.error, by, method, ok2, t)
  ELSE LET d1 == [d EXCEPT !.verifications =
                      PushVerification(@, TryEntry(ev, by, method, t))]
           s == Save(TryStatus(d1, Combine(ev), by), store, ok1, t)
       IN IF s.threw
          THEN CatchBlock(s.doc, s.store, ev, "save", by, method, ok2, t)
          ELSE s

InBound(r) ==
  /\ Len(r.doc.verifications) <= MaxHist
  /\ Len(r.doc.auditTrail) <= MaxHist
  /\ Len(r.store.verifications) <= MaxHist
  /\ Len(r.store.auditTrail) <= MaxHist

Verify(h) ==
  /\ mem[h].loaded
  /\ \E method \in Methods, docHash \in Hashes \cup {NoVal},
        ok1 \in BOOLEAN, ok2 \in BOOLEAN :
       LET by == handlers[h]
           ev == Evidence(cfg, env, docHash, now)
           r == VerifyCall(mem[h], db, cfg, env, by, method, docHash, ok1, ok2, now)
           saveFailed == ~ev.threw /\ ~ok1
       IN /\ (ev.threw \/ saveFailed) \/ ok2     \* ok2 is read only by the catch block
          /\ ev.threw => ok1                     \* ok1 is read only by the try block
          /\ InBound(r)
          /\ mem' = [mem EXCEPT ![h] = r.doc]
          /\ db' = r.store
          /\ last' = [op |-> "verify", h |-> h, by |-> by, method |-> method,
                      preStatus |-> mem[h].status, preStored |-> db.status,
                      preV |-> Len(mem[h].verifications),
                      preA |-> Len(mem[h].auditTrail), ev |-> ev,
                      saveFailed |-> saveFailed, threw |-> r.threw]
  /\ UNCHANGED <<cfg, env, now, handlers, coll, acct, exp>>

\* ---- revoke() ----------------------------------------------------------
RevokeCall(d, store, by, reason, details, ok, t) ==
  LET d1 == [SetStatus(d, "revoked")
               EXCEPT !.revocation = [revokedAt |-> t, revokedBy |-> by,
                                      reason |-> reason, details |-> details],
                      !.modRevocation = TRUE,
                      !.performedBy = by,
                      !.actionReason = reason,
                      !.actionDetails = details]
  IN Save(d1, store, ok, t)

Revoke(h) ==
  /\ mem[h].loaded
  /\ \E reason \in RevokeReasons, details \in RevokeDetails, ok \in BOOLEAN :
       LET by == handlers[h]
           r == RevokeCall(mem[h], db, by, reason, details, ok, now)
       IN /\ InBound(r)
          /\ mem' = [mem EXCEPT ![h] = r.doc]
          /\ db' = r.store
          /\ last' = [op |-> "revoke", h |-> h, by |-> by, reason |-> reason,
                      details |-> details, preStatus |-> mem[h].status,
                      preStored |-> db.status,
                      preV |-> Len(mem[h].verifications),
                      preA |-> Len(mem[h].auditTrail),
                      threw |-> r.threw]
  /\ UNCHANGED <<cfg, env, now, handlers, coll, acct, exp>>

\* ---- the virtuals isValid and isExpiringSoon ---------------------------
\* thirtyDaysFromNow: the clock counts in steps of thirty days.
ThirtyDays == 1

\* An isValid that does not look at the certificate.
IsValid_StatusOnly(status, validTo, t) ==
  IF status = "revoked" \/ status = "expired" THEN FALSE
  ELSE status = "valid"

IsValid(status, validTo, t) ==
  IF status = "revoked" \/ status = "expired" THEN FALSE
  ELSE IF validTo # NoDate /\ validTo < t THEN FALSE
  ELSE status = "valid"

IsExpiringSoon(validTo, t) ==
  IF validTo = NoDate THEN FALSE
  ELSE validTo <= t + ThirtyDays /\ validTo > t

\* A handler reads both virtuals of its document.
ReadVirtuals(h) ==
  /\ mem[h].loaded
  /\ last' = [op |-> "read", h |-> h, pre |-> mem[h], preStored |-> db,
              isValid |-> IsValid(mem[h].status, cfg.validTo, now),
              isExpiringSoon |-> IsExpiringSoon(cfg.validTo, now)]
  /\ UNCHANGED <<cfg, env, db, mem, now, handlers, coll, acct, exp>>

Next ==
  \/ \E h \in DOMAIN handlers : Load(h)
  \/ \E h \in DOMAIN handlers : Verify(h)
  \/ \E h \in DOMAIN handlers : Revoke(h)
  \/ Tick

Spec == Init /\ [][Next]_vars

\* The life of one record past the end of its certificate: signed by K1,
\* with a certificate and a genuine or a forged timestamp token.
MaxAge == 3       \* the clock runs 1..MaxAge

LifeRecords == {Record("K1", 2, "tok"), Record("K1", 2, "forged")}

InitLife ==
  /\ cfg \in LifeRecords
  /\ env = [digestKnown |-> TRUE]
  /\ db = Pending
  /\ mem = [h \in Copies |-> Unloaded]
  /\ now = 1
  /\ handlers = [h \in {1} |-> "u1"]
  /\ last = NoCall
  /\ Elsewhere

Age ==
  /\ now < MaxAge
  /\ now' = now + 1
  /\ last' = [op |-> "tick"]
  /\ UNCHANGED <<cfg, env, db, mem, handlers, coll, acct, exp>>

NextLife ==
  \/ \E h \in DOMAIN handlers : Load(h)
  \/ \E h \in DOMAIN handlers : Verify(h)
  \/ \E h \in DOMAIN handlers : Revoke(h)
  \/ \E h \in DOMAIN handlers : ReadVirtuals(h)
  \/ Age

SpecLife == InitLife /\ [][NextLife]_vars

\* Concurrent handlers: each loads its copy while the record is pending and
\* makes one call on it.
LoadPending(h) == ~mem[h].loaded /\ db.status = "pending_verification" /\ Load(h)

Fresh(h) == mem[h] = Hydrate(Pending)

VerifyOnce(h) == Fresh(h) /\ Verify(h)

RevokeOnce(h) == Fresh(h) /\ Revoke(h)

NextConc ==
  \/ \E h \in DOMAIN handlers : LoadPending(h)
  \/ \E h \in DOMAIN handlers : VerifyOnce(h)
  \/ \E h \in DOMAIN handlers : RevokeOnce(h)

SpecConc == InitConc /\ [][NextConc]_vars

\* ---- DigitalSignature.verifySignature ----------------------------------
\* Texts are sequences of tokens.  A document is null, undefined, a raw text
\* or an object: a sequence of properties [k, v] in insertion order, a value
\* being an atom or a nested object.
Atom(a) == [t |-> "atom", a |-> a, fields |-> <<>>]
Obj(fields) == [t |-> "obj", a |-> "", fields |-> fields]
\* An array: fields holds its elements, which are values.
Arr(items) == [t |-> "arr", a |-> "", fields |-> items]
Prop(k, v) == [k |-> k, v |-> v]

NullDoc == [kind |-> "null", text |-> <<>>, fields |-> <<>>]
UndefinedDoc == [kind |-> "undefined", text |-> <<>>, fields |-> <<>>]
RawDoc(text) == [kind |-> "string", text |-> text, fields |-> <<>>]
ObjDoc(fields) == [kind |-> "object", text |-> <<>>, fields |-> fields]

\* The property names explored, in the order Array.prototype.sort puts them.
KeyOrder == <<"_id", "amount", "filename", "receipts", "title">>

HasKey(fields, k) == \E i \in 1..Len(fields) : fields[i].k = k

ValueOf(fields, k) == fields[CHOOSE i \in 1..Len(fields) : fields[i].k = k].v

\* Object.keys(document).sort()
SortedKeys(fields) == SelectSeq(KeyOrder, LAMBDA k : HasKey(fields, k))

RECURSIVE JoinComma(_)
JoinComma(parts) ==
  IF parts = <<>> THEN <<>>
  ELSE IF Len(parts) = 1 THEN parts[1]
  ELSE parts[1] \o <<",">> \o JoinComma(Tail(parts))

\* JSON.stringify(value, replacerArray): of every object, at every depth,
\* only the properties named in the array are written, in the array's order.
RECURSIVE StringifyValue(_, _)
RECURSIVE StringifyMembers(_, _, _)
StringifyMembers(fields, names, allow) ==
  IF names = <<>> THEN <<>>
  ELSE LET k == Head(names)
           rest == StringifyMembers(fields, Tail(names), allow)
       IN IF HasKey(fields, k)
          THEN <<(<<k, ":">> \o StringifyValue(ValueOf(fields, k), allow))>> \o rest
          ELSE rest

StringifyValue(v, allow) ==
  IF v.t = "atom" THEN <<v.a>>
  ELSE IF v.t = "arr"
  THEN <<"[">>
       \o JoinComma([i \in 1..Len(v.fields) |-> StringifyValue(v.fields[i], allow)])
       \o <<"]">>
  ELSE <<"{">> \o JoinComma(StringifyMembers(v.fields, allow, allow)) \o <<"}">>

\* typeof document === 'string' ? document
\*   : JSON.stringify(document, Object.keys(document).sort())
DocumentString(document) ==
  IF document.kind = "string" THEN document.text
  ELSE StringifyValue(Obj(document.fields), SortedKeys(document.fields))

\* A SHA-256 hex digest, or undefined.
Sha256(text) == [def |-> TRUE, sha |-> text]
UndefinedHash == [def |-> FALSE, sha |-> <<>>]

\* crypto.createVerify(algorithm): the digest names the build may know.
AlgorithmKnown(e, algorithm) ==
  \/ algorithm = "RSA-SHA256"
  \/ algorithm = "sha256WithRSA" /\ e.digestKnown

Thrown(error) ==
  [threw |-> TRUE, error |-> error, valid |-> FALSE, reason |-> NoVal,
   documentIntact |-> FALSE, signatureValid |-> FALSE]

Outcome(valid, reason, intact, sigValid) ==
  [threw |-> FALSE, error |-> NoVal, valid |-> valid, reason |-> reason,
   documentIntact |-> intact, signatureValid |-> sigValid]

\* A try block that runs the cryptographic check before comparing hashes.
VerifySignatureBody_CryptoFirst(e, document, sd) ==
  IF sd.kind # "object" THEN Thrown("TypeError")
  ELSE IF document.kind \in {"null", "undefined"} THEN Thrown("TypeError")
  ELSE LET currentHash == Sha256(DocumentString(document)) IN
       IF ~AlgorithmKnown(e, sd.algorithm) THEN Thrown("crypto")
       ELSE LET v == CryptoVerify(sd.signerPublicKey, sd.documentHash, sd.digitalSignature)
            IN IF v = "throw" THEN Thrown("crypto")
               ELSE IF v = "false"
               THEN Outcome(FALSE, "INVALID_SIGNATURE", TRUE, FALSE)
               ELSE IF currentHash # sd.documentHash
               THEN Outcome(FALSE, "DOCUMENT_MODIFIED", FALSE, FALSE)
               ELSE Outcome(TRUE, NoVal, TRUE, TRUE)

\* The try block.
VerifySignatureBody(e, document, sd) ==
  IF sd.kind # "object" THEN Thrown("TypeError")
  ELSE IF document.kind \in {"null", "undefined"} THEN Thrown("TypeError")
  ELSE LET currentHash == Sha256(DocumentString(document)) IN
       IF currentHash # sd.documentHash
       THEN Outcome(FALSE, "DOCUMENT_MODIFIED", FALSE, FALSE)
       ELSE IF ~AlgorithmKnown(e, sd.algorithm) THEN Thrown("crypto")
       ELSE LET v == CryptoVerify(sd.signerPublicKey, sd.documentHash, sd.digitalSignature)
            IN IF v = "throw" THEN Thrown("crypto")
               ELSE IF v = "false"
               THEN Outcome(FALSE, "INVALID_SIGNATURE", TRUE, FALSE)
               ELSE Outcome(TRUE, NoVal, TRUE, TRUE)

\* A catch that handles crypto errors only and rethrows the rest.
CatchVerification_CryptoOnly(r) ==
  IF r.threw /\ r.error = "crypto"
  THEN Outcome(FALSE, "VERIFICATION_ERROR", FALSE, FALSE) ELSE r

\* The catch block.
CatchVerification(r) ==
  IF r.threw THEN Outcome(FALSE, "VERIFICATION_ERROR", FALSE, FALSE) ELSE r

VerifySignature(e, document, sd) ==
  CatchVerification(VerifySignatureBody(e, document, sd))

\* The inputs explored.
Flight == <<Prop("title", Atom("Flight")), Prop("amount", Atom("120.5"))>>
FlightReordered == <<Prop("amount", Atom("120.5")), Prop("title", Atom("Flight"))>>
FlightChanged == <<Prop("title", Atom("Flight")), Prop("amount", Atom("130.5"))>>
WithReceipt(name) ==
  <<Prop("title", Atom("Flight")),
    Prop("receipts", Obj(<<Prop("filename", Atom(name))>>))>>

Documents ==
  {NullDoc, UndefinedDoc, RawDoc(<<"hello">>), RawDoc(<<"world">>),
   ObjDoc(Flight), ObjDoc(FlightReordered), ObjDoc(FlightChanged),
   ObjDoc(WithReceipt("a.pdf")), ObjDoc(WithReceipt("b.pdf"))}

SignedDocuments == {RawDoc(<<"hello">>), ObjDoc(Flight)}

DocHashes == {Sha256(DocumentString(d)) : d \in SignedDocuments}

NullEnvelope ==
  [kind |-> "null", digitalSignature |-> [kind |-> "undefined"],
   documentHash |-> UndefinedHash, algorithm |-> NoVal, signerPublicKey |-> NoVal]

Envelopes ==
  {NullEnvelope} \cup
  [kind : {"object"},
   digitalSignature : {SignOf("K1", h) : h \in DocHashes}
                        \cup {Garbage, [kind |-> "undefined"]},
   documentHash : DocHashes \cup {UndefinedHash},
   algorithm : {"RSA-SHA256", "sha256WithRSA", "bogus", NoVal},
   signerPublicKey : PubKeys \cup {NoVal}]

InitVS ==
  /\ cfg = Record("K1", 2, "tok")
  /\ env \in [digestKnown : BOOLEAN]
  /\ db = Pending
  /\ mem = [h \in Copies |-> Unloaded]
  /\ now = 1
  /\ handlers = [h \in {1} |-> "u1"]
  /\ last = NoCall
  /\ Elsewhere

\* One call per behaviour: the function keeps no state.
VerifySignatureCall ==
  /\ last = NoCall
  /\ \E document \in Documents, sd \in Envelopes :
       last' = [op |-> "verifySignature", document |-> document,
                envelope |-> sd,
                out |-> VerifySignature(env, document, sd)]
  /\ UNCHANGED <<cfg, env, db, mem, now, handlers, coll, acct, exp>>

NextVS == VerifySignatureCall

SpecVS == InitVS /\ [][NextVS]_vars

\* ---- DigitalSignature.signDocument -------------------------------------
PrivKeys == {"BADPEM", "P1", "P2"} \* unparseable PEM and two private keys

\* extractPublicKeyFromPrivate: the public half of a parseable private key.
PublicOf(privateKey) == IF privateKey = "P1" THEN "K1" ELSE "K2"

SignThrown ==
  [threw |-> TRUE, success |-> FALSE, signature |-> NullEnvelope,
   documentHash |-> UndefinedHash]

\* A try block that signs the digest of the digest.
SignDocumentBody_SignsOtherDigest(e, document, privateKey) ==
  IF document.kind \in {"null", "undefined"} THEN SignThrown
  ELSE LET documentHash == Sha256(DocumentString(document)) IN
       IF ~AlgorithmKnown(e, "sha256WithRSA") THEN SignThrown
       ELSE IF privateKey \notin {"P1", "P2"} THEN SignThrown
       ELSE [threw |-> FALSE, success |-> TRUE,
             signature |->
               [kind |-> "object",
                digitalSignature |->
                  SignOf(PublicOf(privateKey), Sha256(documentHash.sha \o <<"#">>)),
                documentHash |-> documentHash,
                algorithm |-> "sha256WithRSA",
                signerPublicKey |-> PublicOf(privateKey)],
             documentHash |-> documentHash]

\* The try block; the catch block rethrows.  Of the envelope, timestamp and
\* metadata are left out: verifySignature reads neither.
SignDocumentBody(e, document, privateKey) ==
  IF document.kind \in {"null", "undefined"} THEN SignThrown
  ELSE LET documentHash == Sha256(DocumentString(document)) IN
       IF ~AlgorithmKnown(e, "sha256WithRSA") THEN SignThrown
       ELSE IF privateKey \notin {"P1", "P2"} THEN SignThrown
       ELSE [threw |-> FALSE, success |-> TRUE,
             signature |->
               [kind |-> "object",
                digitalSignature |-> SignOf(PublicOf(privateKey), documentHash),
                documentHash |-> documentHash,
                algorithm |-> "sha256WithRSA",
                signerPublicKey |-> PublicOf(privateKey)],
             documentHash |-> documentHash]

SignDocument(e, document, privateKey) == SignDocumentBody(e, document, privateKey)

\* ---- DigitalSignature.canonicalizeDocument, createDocumentHash ---------
ExcludeFields == {"_id", "__v", "createdAt", "updatedAt", "signature", "history"}

\* The names of the indices 0..23 of a spread string, and the order
\* Array.prototype.sort puts them in.
IdxName ==
  <<"0", "1", "2", "3", "4", "5", "6", "7", "8", "9",
    "10", "11", "12", "13", "14", "15", "16", "17", "18", "19",
    "20", "21", "22", "23">>
IdxSorted ==
  <<"0", "1", "10", "11", "12", "13", "14", "15", "16", "17", "18", "19",
    "2", "20", "21", "22", "23", "3", "4", "5", "6", "7", "8", "9">>

\* { ...document }: the own properties of an object, one property per index
\* of a string, none of null or undefined.
Spread(document) ==
  IF document.kind = "object" THEN document.fields
  ELSE IF document.kind = "string"
  THEN [i \in 1..Len(document.text) |-> Prop(IdxName[i], Atom(document.text[i]))]
  ELSE <<>>

\* Object.keys(cleanDocument), not sorted.
CleanKeys_InsertionOrder(fields) == [i \in 1..Len(fields) |-> fields[i].k]

\* Object.keys(cleanDocument).sort()
CleanKeys(fields) ==
  SelectSeq(KeyOrder, LAMBDA k : HasKey(fields, k))
  \o SelectSeq(IdxSorted, LAMBDA k : HasKey(fields, k))

\* A canonicalization that keeps the excluded fields.
CanonicalizeDocument_KeepsAll(document) ==
  LET cleanDocument == Spread(document)
  IN StringifyValue(Obj(cleanDocument), CleanKeys(cleanDocument))

CanonicalizeDocument(document) ==
  LET cleanDocument ==
        SelectSeq(Spread(document), LAMBDA p : p.k \notin ExcludeFields)
  IN StringifyValue(Obj(cleanDocument), CleanKeys(cleanDocument))

\* Object.keys(document) throws on null and undefined.
CreateDocumentHash(document) ==
  IF document.kind \in {"null", "undefined"} THEN UndefinedHash
  ELSE Sha256(DocumentString(document))

\* ---- signatureSchema.methods.calculateDocumentHash ---------------------
\* Object.keys(documentData).sort()
DocumentDataKeys ==
  <<"amount", "category", "currency", "description", "employee",
    "expenseDate", "receipts", "title">>

\* The properties named, in that order; an undefined one is not written.
Pick(fields, names) ==
  [i \in 1..Len(SelectSeq(names, LAMBDA k : HasKey(fields, k))) |->
     LET k == SelectSeq(names, LAMBDA n : HasKey(fields, n))[i]
     IN Prop(k, ValueOf(fields, k))]

\* document.receipts.map(...) throws unless receipts is an array.
HasReceipts(document) ==
  /\ document.kind = "object"
  /\ HasKey(document.fields, "receipts")
  /\ ValueOf(document.fields, "receipts").t = "arr"

CalculateDocumentHash(document) ==
  IF ~HasReceipts(document) THEN UndefinedHash
  ELSE LET receipts == ValueOf(document.fields, "receipts").fields
           documentData ==
             Pick(document.fields,
                  <<"title", "description", "amount", "currency", "category",
                    "expenseDate", "employee">>)
             \o <<Prop("receipts",
                       Arr([i \in 1..Len(receipts) |->
                              Obj(Pick(receipts[i].fields,
                                       <<"filename", "size", "mimetype">>))]))>>
       IN Sha256(StringifyValue(Obj(documentData), DocumentDataKeys))

\* ---- signing, verifying and hashing documents --------------------------
WithId(id) ==
  <<Prop("_id", Atom(id)), Prop("title", Atom("Flight")),
    Prop("amount", Atom("120.5"))>>

Receipt(name) == Obj(<<Prop("filename", Atom(name)), Prop("size", Atom("10"))>>)
ReceiptReordered(name) ==
  Obj(<<Prop("size", Atom("10")), Prop("filename", Atom(name))>>)

Expense(name) ==
  <<Prop("title", Atom("Flight")), Prop("amount", Atom("120.5")),
    Prop("receipts", Arr(<<Receipt(name)>>))>>
ExpenseReordered(name) ==
  <<Prop("receipts", Arr(<<ReceiptReordered(name)>>)),
    Prop("amount", Atom("120.5")), Prop("title", Atom("Flight"))>>

\* A nested mapping whose keys are top-level keys too.
Nested ==
  <<Prop("title", Atom("Trip")), Prop("filename", Atom("cover.pdf")),
    Prop("receipts", Obj(<<Prop("filename", Atom("a.pdf")),
                           Prop("title", Atom("Taxi"))>>))>>
NestedReordered ==
  <<Prop("receipts", Obj(<<Prop("title", Atom("Taxi")),
                           Prop("filename", Atom("a.pdf"))>>)),
    Prop("filename", Atom("cover.pdf")), Prop("title", Atom("Trip"))>>

Drafts ==
  Documents \cup
  {ObjDoc(WithId("1")), ObjDoc(WithId("2")),
   ObjDoc(Expense("a.pdf")), ObjDoc(Expense("b.pdf")),
   ObjDoc(ExpenseReordered("a.pdf")),
   ObjDoc(Nested), ObjDoc(NestedReordered)}

\* The arguments of canonicalizeDocument: a document or a canonical string.
CanonInputs == Drafts \cup {RawDoc(CanonicalizeDocument(d)) : d \in Drafts}

InitSign == InitVS

SignDocumentCall ==
  /\ last = NoCall
  /\ \E document \in Drafts, privateKey \in PrivKeys :
       last' = [op |-> "signDocument", document |-> document,
                privateKey |-> privateKey,
                out |-> SignDocument(env, document, privateKey)]
  /\ UNCHANGED <<cfg, env, db, mem, now, handlers, coll, acct, exp>>

\* verifySignature on the envelope signDocument returned, its
\* signerPublicKey kept or replaced, and a document presented with it.
VerifySigned ==
  /\ last.op = "signDocument"
  /\ ~last.out.threw
  /\ \E presented \in Drafts, replaced \in {"keep"} \cup PubKeys :
       LET sd == IF replaced = "keep" THEN last.out.signature
                 ELSE [last.out.signature EXCEPT !.signerPublicKey = replaced]
       IN last' = [op |-> "verifySignature", document |-> presented,
                   envelope |-> sd,
                   out |-> VerifySignature(env, presented, sd),
                   signed |-> last.document,
                   privateKey |-> last.privateKey,
                   replaced |-> replaced]
  /\ UNCHANGED <<cfg, env, db, mem, now, handlers, coll, acct, exp>>

CanonicalizeDocumentCall ==
  /\ last = NoCall
  /\ \E document \in CanonInputs :
       last' = [op |-> "canonicalizeDocument", document |-> document,
                out |-> CanonicalizeDocument(document)]
  /\ UNCHANGED <<cfg, env, db, mem, now, handlers, coll, acct, exp>>

CreateDocumentHashCall ==
  /\ last = NoCall
  /\ \E document \in Drafts :
       last' = [op |-> "createDocumentHash", document |-> document,
                out |-> CreateDocumentHash(document)]
  /\ UNCHANGED <<cfg, env, db, mem, now, handlers, coll, acct, exp>>

CalculateDocumentHashCall ==
  /\ last = NoCall
  /\ \E document \in Drafts :
       last' = [op |-> "calculateDocumentHash", document |-> document,
                out |-> CalculateDocumentHash(document)]
  /\ UNCHANGED <<cfg, env, db, mem, now, handlers, coll, acct, exp>>

\* ---- DigitalSignature.generateTimestamp, verifyTimestamp ---------------
\* new Date().toISOString(): one token, always of the same length.
Iso(t) == <<"T1", "T2", "T3", "T4">>[t]

\* Buffer.from(JSON.stringify({timestamp, hash, tsa})).toString('base64')
EncodeToken(timestamp, hash) ==
  [kind |-> "base64json", timestamp |-> timestamp, hash |-> hash,
   tsa |-> "internal-tsa"]

\* What a caller may pass for a token: not a string, a string that is not
\* base64 of JSON, the encoding of JSON null, of an object without fields.
NotAString == [kind |-> "null", timestamp |-> NoVal, hash |-> UndefinedHash, tsa |-> NoVal]
NotJson == [kind |-> "garbage", timestamp |-> NoVal, hash |-> UndefinedHash, tsa |-> NoVal]
JsonNull == [kind |-> "base64null", timestamp |-> NoVal, hash |-> UndefinedHash, tsa |-> NoVal]
JsonEmpty == [kind |-> "base64json", timestamp |-> NoVal, hash |-> UndefinedHash, tsa |-> NoVal]

\* data + timestamp: an undefined timestamp is written 'undefined'.
WithTimestamp(data, timestamp) ==
  data \o <<(IF timestamp = NoVal THEN "undefined" ELSE timestamp)>>

GenerateTimestamp(data, t) ==
  [timestamp |-> Iso(t),
   token |-> EncodeToken(Iso(t), Sha256(WithTimestamp(data, Iso(t))))]

\* The try block: Buffer.from throws on a token that is not a string,
\* JSON.parse on text that is not JSON, the property read on null.
VerifyTimestampBody(token, data) ==
  IF token.kind # "base64json" THEN "throw"
  ELSE IF Sha256(WithTimestamp(data, token.timestamp)) = token.hash
  THEN "true" ELSE "false"

\* A verifyTimestamp without the catch block.
VerifyTimestamp_NoCatch(token, data) ==
  LET r == VerifyTimestampBody(token, data)
  IN [threw |-> r = "throw", value |-> r = "true"]

VerifyTimestamp(token, data) ==
  LET r == VerifyTimestampBody(token, data)
  IN [threw |-> FALSE, value |-> r = "true"]

TimestampData == {<<"H1">>, <<"H2">>, <<"H1", "H2">>, <<>>}

\* A token with its embedded hash or its timestamp replaced.
Altered(token) ==
  {[token EXCEPT !.hash = Sha256(WithTimestamp(d, token.timestamp))] :
     d \in TimestampData}
  \cup {[token EXCEPT !.timestamp = Iso(t)] : t \in 1..4}

GenerateTimestampCall ==
  /\ last = NoCall
  /\ \E data \in TimestampData :
       last' = [op |-> "generateTimestamp", data |-> data,
                out |-> GenerateTimestamp(data, now)]
  /\ UNCHANGED <<cfg, env, db, mem, now, handlers, coll, acct, exp>>

\* verifyTimestamp on the token generateTimestamp returned, on an altered
\* copy of it or on something that does not decode, with some data.
VerifyTimestampCall ==
  /\ last.op = "generateTimestamp"
  /\ \E data \in TimestampData,
        token \in {last.out.token} \cup Altered(last.out.token)
                    \cup {NotAString, NotJson, JsonNull, JsonEmpty} :
       last' = [op |-> "verifyTimestamp", token |-> token, data |-> data,
                issued |-> last.out.token, issuedFor |-> last.data,
                out |-> VerifyTimestamp(token, data)]
  /\ UNCHANGED <<cfg, env, db, mem, now, handlers, coll, acct, exp>>

NextSign ==
  \/ GenerateTimestampCall
  \/ VerifyTimestampCall
  \/ SignDocumentCall
  \/ VerifySigned
  \/ CanonicalizeDocumentCall
  \/ CreateDocumentHashCall
  \/ CalculateDocumentHashCall

SpecSign == InitSign /\ [][NextSign]_vars

\* signatureSchema.algorithm: the values the enum validator accepts.
AlgorithmEnum == {"SHA256withRSA", "SHA256withECDSA", "SHA512withRSA"}

\* ---- creating signature records ----------------------------------------
DocIds == {"e1", "e2"}
SignerIds == {"s1", "s2"}

NoDraft == [state |-> "none", document |-> NoVal, signer |-> NoVal,
            status |-> NoVal, preparedAt |-> 0]

\* new Signature({document, signer, ...}): status takes the schema default.
NewDocument(document, signer, seen) ==
  [state |-> "new", document |-> document, signer |-> signer,
   status |-> "pending_verification", preparedAt |-> seen]

\* The unique index {document: 1, signer: 1}.
IndexHas(docs, document, signer) ==
  \E i \in 1..Len(docs) : docs[i].document = document /\ docs[i].signer = signer

\* An insert into a collection without the unique index.
Insert_NoIndex(docs, d) ==
  [threw |-> FALSE,
   docs |-> Append(docs, [document |-> d.document, signer |-> d.signer,
                          status |-> d.status])]

\* insertOne: the server checks the unique index and writes in one step; a
\* duplicate key is an E11000 error and nothing is written.
Insert(docs, d) ==
  IF IndexHas(docs, d.document, d.signer)
  THEN [threw |-> TRUE, docs |-> docs]
  ELSE [threw |-> FALSE,
        docs |-> Append(docs, [document |-> d.document, signer |-> d.signer,
                               status |-> d.status])]

InitCreate ==
  /\ cfg = Record("K1", 2, "tok")
  /\ env = [digestKnown |-> TRUE]
  /\ db = Pending
  /\ mem = [h \in Copies |-> Unloaded]
  /\ now = 1
  /\ handlers \in [Copies -> {"u1"}]
  /\ last = NoCall
  /\ coll = [used |-> TRUE, docs |-> <<>>, drafts |-> [h \in Copies |-> NoDraft]]
  /\ acct = NotUsed
  /\ exp = NotUsed

\* A handler builds the record of a signature just made; each handler
\* serves one request.
NewSignature(h) ==
  /\ coll.drafts[h].state = "none"
  /\ \E document \in DocIds, signer \in SignerIds :
       coll' = [coll EXCEPT !.drafts[h] =
                  NewDocument(document, signer, Len(coll.docs))]
  /\ last' = [op |-> "new", h |-> h]
  /\ UNCHANGED <<cfg, env, db, mem, now, handlers, acct, exp>>

\* save() of a new document: the pre-save hook adds no audit entry (isNew),
\* then the document is inserted.
SaveNew(h) ==
  /\ coll.drafts[h].state = "new"
  /\ LET r == Insert(coll.docs, coll.drafts[h])
     IN /\ coll' = [coll EXCEPT
                      !.docs = r.docs,
                      !.drafts[h].state = IF r.threw THEN "rejected" ELSE "saved"]
        /\ last' = [op |-> "create", h |-> h, threw |-> r.threw,
                    document |-> coll.drafts[h].document,
                    signer |-> coll.drafts[h].signer,
                    preLen |-> Len(coll.docs)]
  /\ UNCHANGED <<cfg, env, db, mem, now, handlers, acct, exp>>

NextCreate ==
  \/ \E h \in DOMAIN handlers : NewSignature(h)
  \/ \E h \in DOMAIN handlers : SaveNew(h)

SpecCreate == InitCreate /\ [][NextCreate]_vars

\* ---- the user account and the login handler ----------------------------
\* The clock of the login specifications counts quarters of an hour: the
\* window of the rate limiter is one (15 minutes), the lock eight (2 hours).
RateWindow == 1
RateMax == 5
LockTime == 8
LockAfter == 5
MaxTime == 10     \* the clock runs 1..MaxTime
MaxTries == 7     \* loginAttempts explored up to MaxTries

Emails == {"known", "unknown", NoVal}
Passwords == {"right", "wrong"}

\* The stored user: loginAttempts defaults to 0, lockUntil and lastLogin to
\* null (NoDate).
NewUser(isActive) ==
  [isActive |-> isActive, loginAttempts |-> 0, lockUntil |-> NoDate,
   lastLogin |-> NoDate]

NoUser == [found |-> FALSE, isActive |-> FALSE, loginAttempts |-> 0,
           lockUntil |-> NoDate]

\* loginLimiter: the hits of the current window; a window opens with the
\* first request after the last one closed.
Hit(limiter, t) ==
  IF limiter.hits = 0 \/ t >= limiter.resetAt
  THEN [hits |-> 1, resetAt |-> t + RateWindow]
  ELSE [hits |-> IF limiter.hits > RateMax THEN limiter.hits ELSE limiter.hits + 1,
        resetAt |-> limiter.resetAt]

Blocked(limiter) == limiter.hits > RateMax

\* User.findOne({email, isActive: true}).select(...)
FindOne(user, email) ==
  IF email = "known" /\ user.isActive
  THEN [found |-> TRUE, isActive |-> user.isActive,
        loginAttempts |-> user.loginAttempts, lockUntil |-> user.lockUntil]
  ELSE NoUser

\* An isLocked that never reports a lock.
IsLocked_Never(u, t) == FALSE

IsLocked(u, t) == u.lockUntil # NoDate /\ u.lockUntil > t

\* An incLoginAttempts that goes on counting after a lock has run out.
IncLoginAttempts_KeepsCount(u, user, t) ==
  IF u.loginAttempts + 1 >= LockAfter /\ ~IsLocked(u, t)
  THEN [user EXCEPT !.loginAttempts = @ + 1, !.lockUntil = t + LockTime]
  ELSE [user EXCEPT !.loginAttempts = @ + 1]

\* incLoginAttempts on the copy u: the update it sends is applied to the
\* stored user, $inc to the stored count.
IncLoginAttempts(u, user, t) ==
  IF u.lockUntil # NoDate /\ u.lockUntil < t
  THEN [user EXCEPT !.lockUntil = NoDate, !.loginAttempts = 1]
  ELSE IF u.loginAttempts + 1 >= LockAfter /\ ~IsLocked(u, t)
  THEN [user EXCEPT !.loginAttempts = @ + 1, !.lockUntil = t + LockTime]
  ELSE [user EXCEPT !.loginAttempts = @ + 1]

ResetLoginAttempts(user, t) ==
  [user EXCEPT !.loginAttempts = 0, !.lockUntil = NoDate, !.lastLogin = t]

Answer(status, error, token, update) ==
  [status |-> status, error |-> error, token |-> token, update |-> update]

\* A handler that compares the password before it looks at the lock.
AfterFind_PasswordFirst(u, password, t) ==
  IF ~u.found THEN Answer(401, "INVALID_CREDENTIALS", FALSE, "none")
  ELSE IF password = "right" THEN Answer(200, NoVal, TRUE, "reset")
  ELSE IF IsLocked(u, t) THEN Answer(423, "ACCOUNT_LOCKED", FALSE, "none")
  ELSE Answer(401, "INVALID_CREDENTIALS", FALSE, "inc")

\* The handler from the result of findOne on: which response it sends and
\* which update it makes.
AfterFind(u, password, t) ==
  IF ~u.found THEN Answer(401, "INVALID_CREDENTIALS", FALSE, "none")
  ELSE IF IsLocked(u, t) THEN Answer(423, "ACCOUNT_LOCKED", FALSE, "none")
  ELSE IF ~u.isActive THEN Answer(403, "ACCOUNT_INACTIVE", FALSE, "none")
  ELSE IF password # "right"
  THEN Answer(401, "INVALID_CREDENTIALS", FALSE, "inc")
  ELSE Answer(200, NoVal, TRUE, "reset")

\* The handler up to findOne: the rate limiter answers 429 itself and the
\* handler goes no further; a missing email is answered 400.
BeforeFind(limiter, email) ==
  IF Blocked(limiter) THEN Answer(429, "RATE_LIMIT_EXCEEDED", FALSE, "none")
  ELSE IF email = NoVal THEN Answer(400, "MISSING_FIELDS", FALSE, "none")
  ELSE Answer(0, NoVal, FALSE, "find")

Apply(update, u, user, t) ==
  IF update = "inc" THEN IncLoginAttempts(u, user, t)
  ELSE IF update = "reset" THEN ResetLoginAttempts(user, t)
  ELSE user

\* The run of wrong-password requests for the known account that began with
\* loginAttempts = 0 and no lock: how many were sent, how many the rate
\* limiter let through.
NoRun == [sent |-> 0, passed |-> 0]

Run(run, user, email, password, status, t) ==
  IF /\ email = "known" /\ password = "wrong"
     /\ (run.sent > 0 \/ (user.loginAttempts = 0 /\ user.lockUntil = NoDate))
  THEN [sent |-> run.sent + 1,
        passed |-> IF status = 429 THEN run.passed ELSE run.passed + 1]
  ELSE NoRun

NoRequest == [pc |-> "idle", password |-> NoVal, copy |-> NoUser]

InitLogin ==
  /\ cfg = Record("K1", 2, "tok")
  /\ env = [digestKnown |-> TRUE]
  /\ db = Pending
  /\ mem = [h \in Copies |-> Unloaded]
  /\ now = 1
  /\ handlers = [h \in {1} |-> "u1"]
  /\ last = NoCall
  /\ coll = NotUsed
  /\ acct \in [used : {TRUE}, user : {NewUser(TRUE), NewUser(FALSE)},
               limiter : {[hits |-> 0, resetAt |-> 0]},
               reqs : {[h \in Copies |-> NoRequest]},
               run : {NoRun}]
  /\ exp = NotUsed

\* One login request, from the rate limiter to the response, with no other
\* request in between.
Login(h) ==
  /\ acct.user.loginAttempts < MaxTries
  /\ \E email \in Emails, password \in Passwords :
       LET limiter == Hit(acct.limiter, now)
           early == BeforeFind(limiter, email)
           u == FindOne(acct.user, email)
           answer == IF early.update = "find" THEN AfterFind(u, password, now)
                     ELSE early
           run == Run(acct.run, acct.user, email, password, answer.status, now)
       IN /\ run.sent <= MaxTries
          /\ acct' = [acct EXCEPT
                        !.limiter = limiter,
                        !.user = Apply(answer.update, u, acct.user, now),
                        !.run = run]
          /\ last' = [op |-> "login", h |-> h, email |-> email,
                      password |-> password, answer |-> answer,
                      pre |-> acct.user, t |-> now]
  /\ UNCHANGED <<cfg, env, db, mem, now, handlers, coll, exp>>

Pass ==
  /\ now < MaxTime
  /\ now' = now + 1
  /\ last' = [op |-> "tick"]
  /\ UNCHANGED <<cfg, env, db, mem, handlers, coll, acct, exp>>

NextLogin ==
  \/ \E h \in DOMAIN handlers : Login(h)
  \/ Pass

SpecLogin == InitLogin /\ [][NextLogin]_vars

\* Concurrent requests for the known account: each handler takes its copy
\* with findOne and answers later, other handlers' steps in between.
StoredUsers ==
  {[NewUser(TRUE) EXCEPT !.loginAttempts = n] : n \in 0..(LockAfter - 1)}

InitLoginConc ==
  /\ cfg = Record("K1", 2, "tok")
  /\ env = [digestKnown |-> TRUE]
  /\ db = Pending
  /\ mem = [h \in Copies |-> Unloaded]
  /\ now = 1
  /\ handlers = [h \in Copies |-> "u1"]
  /\ last = NoCall
  /\ coll = NotUsed
  /\ acct \in [used : {TRUE}, user : StoredUsers,
               limiter : {[hits |-> 0, resetAt |-> 0]},
               reqs : {[h \in Copies |-> NoRequest]},
               run : {NoRun}]
  /\ exp = NotUsed

Find(h) ==
  /\ acct.reqs[h].pc = "idle"
  /\ \E password \in Passwords :
       LET limiter == Hit(acct.limiter, now)
           early == BeforeFind(limiter, "known")
           u == FindOne(acct.user, "known")
       IN /\ acct' = [acct EXCEPT
                        !.limiter = limiter,
                        !.reqs[h] = IF early.update = "find"
                                    THEN [pc |-> "found", password |-> password,
                                          copy |-> u]
                                    ELSE [pc |-> "done", password |-> password,
                                          copy |-> NoUser]]
          /\ last' = [op |-> "find", h |-> h, email |-> "known",
                      password |-> password, answer |-> early,
                      pre |-> acct.user, t |-> now]
  /\ UNCHANGED <<cfg, env, db, mem, now, handlers, coll, exp>>

Finish(h) ==
  /\ acct.reqs[h].pc = "found"
  /\ LET req == acct.reqs[h]
         answer == AfterFind(req.copy, req.password, now)
     IN /\ acct' = [acct EXCEPT
                      !.user = Apply(answer.update, req.copy, acct.user, now),
                      !.reqs[h] = [req EXCEPT !.pc = "done"]]
        /\ last' = [op |-> "finish", h |-> h, email |-> "known",
                    password |-> req.password, answer |-> answer,
                    pre |-> acct.user, t |-> now]
  /\ UNCHANGED <<cfg, env, db, mem, now, handlers, coll, exp>>

NextLoginConc ==
  \/ \E h \in DOMAIN handlers : Find(h)
  \/ \E h \in DOMAIN handlers : Finish(h)

SpecLoginConc == InitLoginConc /\ [][NextLoginConc]_vars

\* ---- the virtual lastVerification --------------------------------------
RECURSIVE InsertByVerifiedAt(_, _)
\* e goes behind every entry that is not older than it (the sort is stable).
InsertByVerifiedAt(e, s) ==
  IF s = <<>> THEN <<e>>
  ELSE IF Head(s).verifiedAt >= e.verifiedAt
  THEN <<Head(s)>> \o InsertByVerifiedAt(e, SubSeq(s, 2, Len(s)))
  ELSE <<e>> \o s

RECURSIVE SortNewestFirst(_)
\* sort((a, b) => b.verifiedAt - a.verifiedAt)
SortNewestFirst(s) ==
  IF s = <<>> THEN <<>>
  ELSE InsertByVerifiedAt(s[Len(s)], SortNewestFirst(SubSeq(s, 1, Len(s) - 1)))

\* The getter: null for an empty array, else the array is sorted in place,
\* which marks it modified, and its first entry returned.
GetLastVerification(d) ==
  IF Len(d.verifications) = 0
  THEN [doc |-> d, found |-> FALSE, value |-> [verifiedAt |-> NoDate]]
  ELSE LET sorted == SortNewestFirst(d.verifications)
       IN [doc |-> [d EXCEPT !.verifications = sorted,
                             !.modVerifications = TRUE],
           found |-> TRUE, value |-> sorted[1]]

LastVerification(h) ==
  /\ mem[h].loaded
  /\ LET r == GetLastVerification(mem[h])
     IN /\ mem' = [mem EXCEPT ![h] = r.doc]
        /\ last' = [op |-> "lastVerification", h |-> h,
                    pre |-> mem[h].verifications,
                    found |-> r.found, value |-> r.value]
  /\ UNCHANGED <<cfg, env, db, now, handlers, coll, acct, exp>>

InitRead ==
  /\ cfg = Record("K1", 2, "tok")
  /\ env = [digestKnown |-> TRUE]
  /\ db = Pending
  /\ mem = [h \in Copies |-> Unloaded]
  /\ now = 1
  /\ handlers = [h \in {1} |-> "u1"]
  /\ last = NoCall
  /\ Elsewhere

NextRead ==
  \/ \E h \in DOMAIN handlers : Load(h)
  \/ \E h \in DOMAIN handlers : Verify(h)
  \/ \E h \in DOMAIN handlers : LastVerification(h)
  \/ Tick

SpecRead == InitRead /\ [][NextRead]_vars

\* ---- the expense and its status methods --------------------------------
StatusEnum ==
  {"draft", "submitted", "under_review", "approved", "rejected", "signed"}

Performers == {"u1", "u2"}

\* The action the pre-save hook derives from the new status.
ActionOf(status) ==
  IF status = "submitted" THEN "submitted"
  ELSE IF status = "under_review" THEN "reviewed"
  ELSE IF status \in {"approved", "rejected", "signed"} THEN status
  ELSE "updated"

\* save() of an existing expense whose status was assigned: the pre-save hook
\* pushes an entry when the assignment changed the status, with the
\* _previousStatus the method has set.
SaveExpense(e, status, performedBy, previousStatus) ==
  IF status # e.status
  THEN [status |-> status,
        history |-> Append(e.history,
                      [action |-> ActionOf(status), performedBy |-> performedBy,
                       previousStatus |-> previousStatus, newStatus |-> status])]
  ELSE e

\* The status each method assigns and the _previousStatus it sets.
StatusMethods ==
  [submit  |-> [status |-> "submitted", previousStatus |-> "draft"],
   approve |-> [status |-> "approved",  previousStatus |-> "under_review"],
   reject  |-> [status |-> "rejected",  previousStatus |-> "under_review"],
   sign    |-> [status |-> "signed",    previousStatus |-> "approved"]]

InitExpense ==
  /\ cfg = Record("K1", 2, "tok")
  /\ env = [digestKnown |-> TRUE]
  /\ db = Pending
  /\ mem = [h \in Copies |-> Unloaded]
  /\ now = 1
  /\ handlers = [h \in {1} |-> "u1"]
  /\ last = NoCall
  /\ coll = NotUsed
  /\ acct = NotUsed
  /\ exp \in [used : {TRUE},
              doc : [status : StatusEnum, history : {<<>>}]]

Call(method, performedBy) ==
  LET m == StatusMethods[method]
      doc == SaveExpense(exp.doc, m.status, performedBy, m.previousStatus)
  IN /\ Len(doc.history) <= MaxHist
     /\ exp' = [exp EXCEPT !.doc = doc]
     /\ last' = [op |-> method, performedBy |-> performedBy, pre |-> exp.doc]
     /\ UNCHANGED <<cfg, env, db, mem, now, handlers, coll, acct>>

Submit == \E performedBy \in Performers : Call("submit", performedBy)

Approve == \E performedBy \in Performers : Call("approve", performedBy)

Reject == \E performedBy \in Performers : Call("reject", performedBy)

Sign == \E performedBy \in Performers : Call("sign", performedBy)

NextExpense == Submit \/ Approve \/ Reject \/ Sign

SpecExpense == InitExpense /\ [][NextExpense]_vars

\* ---- properties of the record lifecycle --------------------------------
IsPrefix(s, t) == Len(s) <= Len(t) /\ SubSeq(t, 1, Len(s)) = s

LastOf(s) == s[Len(s)]

IsCall(op) == last.op = op

\* The document the last verify / revoke call worked on.
Cur == mem[last.h]

AllFour(entry) ==
  /\ entry.signatureValid
  /\ entry.documentIntact
  /\ entry.certificateValid
  /\ entry.timestampValid

\* The call ran its checks to the end and its save succeeded.
CleanVerify == IsCall("verify") /\ ~last.ev.threw /\ ~last.saveFailed

\* The call was made on a document in sync with the store and returned.
Returned(op) ==
  IsCall(op) /\ ~last.threw /\ last.preStored = last.preStatus

\* C1: once the status is 'revoked', a verify() call, whatever its outcome,
\* leaves it 'revoked', in the document and in the store.
C1_RevokedStaysRevoked ==
  (Returned("verify") /\ last.preStatus = "revoked") =>
    Cur.status = "revoked" /\ db.status = "revoked"

\* C2: a verify() on a pending record leaves the status 'valid' exactly when
\* the four booleans of the Verification entry it appended last are all true,
\* and 'invalid' otherwise; every appended entry has result 'valid' exactly
\* when its four booleans are all true; and when the checks ran to the end and
\* the save succeeded, the entry records the four computed booleans.
C2_PendingVerifyCombinesAllFour ==
  (IsCall("verify") /\ last.preStatus = "pending_verification") =>
    /\ Len(Cur.verifications) > last.preV
    /\ Cur.status = (IF AllFour(LastOf(Cur.verifications)) THEN "valid" ELSE "invalid")
    /\ \A i \in (last.preV + 1)..Len(Cur.verifications) :
         (Cur.verifications[i].result = "valid") <=> AllFour(Cur.verifications[i])
    /\ CleanVerify =>
         /\ Len(Cur.verifications) = last.preV + 1
         /\ LastOf(Cur.verifications).signatureValid = last.ev.signatureValid
         /\ LastOf(Cur.verifications).documentIntact = last.ev.documentIntact
         /\ LastOf(Cur.verifications).certificateValid = last.ev.certificateValid
         /\ LastOf(Cur.verifications).timestampValid = last.ev.timestampValid

C2_Witness ==
  /\ IsCall("verify") /\ last.preStatus = "pending_verification"
  /\ CleanVerify
  /\ Cur.status = "valid"
  /\ db.status = "valid"

C2_WitnessInvalid ==
  /\ IsCall("verify") /\ last.preStatus = "pending_verification"
  /\ CleanVerify
  /\ last.ev.signatureValid /\ ~last.ev.documentIntact
  /\ Cur.status = "invalid"

\* C3: a verify() whose checks ran to the end flips the status by the
\* combined check: from 'valid' to 'invalid' when it is false, from 'invalid'
\* to 'valid' when it is true.
C3_VerifyFlipsStatus ==
  (CleanVerify /\ Returned("verify")) =>
    /\ (last.preStatus = "valid" /\ ~Combine(last.ev)) => Cur.status = "invalid"
    /\ (last.preStatus = "invalid" /\ Combine(last.ev)) => Cur.status = "valid"

\* C4: every verify() and revoke() call leaves the verifications and the
\* auditTrail of each in-memory document and of the stored record an
\* extension of what they were before the call.
C4_HistoryOnlyGrows ==
  [][(last'.op \in {"verify", "revoke"}) =>
       /\ \A h \in Copies :
            /\ IsPrefix(mem[h].verifications, mem'[h].verifications)
            /\ IsPrefix(mem[h].auditTrail, mem'[h].auditTrail)
       /\ IsPrefix(db.verifications, db'.verifications)
       /\ IsPrefix(db.auditTrail, db'.auditTrail)]_vars

C4_Witness ==
  /\ IsCall("verify")
  /\ Len(db.verifications) = 2 /\ Len(db.auditTrail) = 2
  /\ db.auditTrail[1].action = "revoked"
  /\ Len(Cur.verifications) = 2

\* C5: every revoke() call, from any prior status, leaves status 'revoked',
\* sets the revocation metadata from its arguments and appends exactly one
\* AuditEntry with action 'revoked'.
C5_RevokeAlwaysAudits ==
  Returned("revoke") =>
    /\ Cur.status = "revoked"
    /\ Cur.revocation = [revokedAt |-> now, revokedBy |-> last.by,
                         reason |-> last.reason, details |-> last.details]
    /\ Len(Cur.auditTrail) = last.preA + 1
    /\ LastOf(Cur.auditTrail).action = "revoked"

\* C6: a verify() that moves a record out of 'pending_verification' appends
\* exactly one AuditEntry, performed by verifiedBy, with action 'verified'
\* for 'valid' and 'invalidated' for 'invalid'.
C6_PendingVerifyOneAudit ==
  (Returned("verify") /\ last.preStatus = "pending_verification") =>
    /\ Len(Cur.auditTrail) = last.preA + 1
    /\ LastOf(Cur.auditTrail).performedBy = last.by
    /\ LastOf(Cur.auditTrail).action =
         (IF Cur.status = "valid" THEN "verified" ELSE "invalidated")

\* C7: when the signature check was computed as true and a later step of the
\* same verify() throws, the appended Verification entry still has
\* signatureValid = true.
C7_PartialEvidenceKept ==
  (Returned("verify") /\ last.ev.threw /\ last.ev.sigComputed /\ last.ev.sig) =>
    LastOf(Cur.verifications).signatureValid

\* C8: when all checks were computed and only save() fails, the call leaves
\* exactly one new Verification entry, with the computed booleans and result,
\* and the status chosen from them.
C8_FailedSaveKeepsEvidence ==
  (Returned("verify") /\ last.saveFailed) =>
    /\ Len(Cur.verifications) = last.preV + 1
    /\ LastOf(Cur.verifications) = TryEntry(last.ev, last.by, last.method, now)
    /\ Cur.status =
         (IF last.preStatus = "pending_verification"
          THEN (IF Combine(last.ev) THEN "valid" ELSE "invalid")
          ELSE last.preStatus)

\* A handler's call is done and saved.
Saved(h) ==
  /\ mem[h].loaded /\ ~mem[h].modStatus /\ ~mem[h].modRevocation
  /\ mem[h].savedV = Len(mem[h].verifications)
  /\ mem[h].savedA = Len(mem[h].auditTrail)

DidVerify(h) ==
  /\ Saved(h) /\ Len(mem[h].verifications) = 1
  /\ mem[h].verifications[1].errors = <<>>

DidRevoke(h) == Saved(h) /\ mem[h].revocation # NoRevocation

HasAction(trail, action) == \E i \in 1..Len(trail) : trail[i].action = action

\* C9: after a verify() and a revoke() on two copies loaded while the record
\* was pending have both saved, the stored status is 'revoked', the
\* revocation metadata is stored, and the Verification entry and the
\* 'revoked' AuditEntry are both in the stored sequences.
C9_NoLostUpdate ==
  \A hv \in DOMAIN handlers, hr \in DOMAIN handlers :
    (hv # hr /\ DidVerify(hv) /\ DidRevoke(hr)) =>
      /\ db.status = "revoked"
      /\ db.revocation = mem[hr].revocation
      /\ Len(db.verifications) = 1
      /\ HasAction(db.auditTrail, "revoked")

\* C10: verifySignature never propagates an exception: for every document and
\* envelope it returns valid = false with reason DOCUMENT_MODIFIED,
\* INVALID_SIGNATURE or VERIFICATION_ERROR, or valid = true with no reason.
C10_VerifySignatureNeverThrows ==
  IsCall("verifySignature") =>
    /\ ~last.out.threw
    /\ \/ last.out.valid /\ last.out.reason = NoVal
       \/ /\ ~last.out.valid
          /\ last.out.reason \in
               {"DOCUMENT_MODIFIED", "INVALID_SIGNATURE", "VERIFICATION_ERROR"}

C10_Witness ==
  /\ IsCall("verifySignature")
  /\ last.envelope.kind = "null"
  /\ last.out.reason = "VERIFICATION_ERROR"

C10_WitnessBadKey ==
  /\ IsCall("verifySignature")
  /\ last.envelope.kind = "object"
  /\ last.envelope.signerPublicKey = "BADPEM"
  /\ last.envelope.documentHash = Sha256(DocumentString(last.document))
  /\ last.out.reason = "VERIFICATION_ERROR"

\* The call got as far as recomputing the document's hash.
HashRecomputed ==
  /\ IsCall("verifySignature")
  /\ last.envelope.kind = "object"
  /\ last.document.kind \in {"string", "object"}

HashesEqual ==
  Sha256(DocumentString(last.document)) = last.envelope.documentHash

\* C11: in verifySignature the integrity check comes before all cryptography:
\* whenever the recomputed hash differs from the envelope's documentHash the
\* result is DOCUMENT_MODIFIED, whatever the key, the algorithm name and the
\* signature are; INVALID_SIGNATURE and VERIFICATION_ERROR are the result of a
\* call that recomputed the hash only when the hashes are equal.
C11_IntegrityCheckFirst ==
  HashRecomputed =>
    /\ ~HashesEqual => last.out.reason = "DOCUMENT_MODIFIED"
    /\ last.out.reason \in {"INVALID_SIGNATURE", "VERIFICATION_ERROR"} => HashesEqual

C11_Witness ==
  /\ HashRecomputed /\ ~HashesEqual
  /\ last.envelope.signerPublicKey = "BADPEM"
  /\ last.envelope.algorithm = "bogus"
  /\ last.envelope.digitalSignature = Garbage
  /\ last.out.reason = "DOCUMENT_MODIFIED"

C11_WitnessInvalidSignature ==
  /\ HashRecomputed /\ HashesEqual
  /\ last.out.reason = "INVALID_SIGNATURE"

\* ---- properties of signing and canonicalization ------------------------
AllKeys == <<"_id", "amount", "filename", "receipts", "size", "title">>

\* What a value holds, whatever the order its mappings were built in.
RECURSIVE ContentOf(_)
ContentOf(v) ==
  IF v.t = "atom" THEN <<v.a>>
  ELSE IF v.t = "arr"
  THEN <<"[">> \o JoinComma([i \in 1..Len(v.fields) |-> ContentOf(v.fields[i])])
       \o <<"]">>
  ELSE LET names == SelectSeq(AllKeys, LAMBDA k : HasKey(v.fields, k))
       IN <<"{">>
          \o JoinComma([i \in 1..Len(names) |->
                          <<names[i], ":">> \o ContentOf(ValueOf(v.fields, names[i]))])
          \o <<"}">>

Structured(document) == document.kind = "object"

\* Two structured documents with the same keys and values.
SameContent(d1, d2) ==
  /\ Structured(d1) /\ Structured(d2)
  /\ ContentOf(Obj(d1.fields)) = ContentOf(Obj(d2.fields))

Signable(document) ==
  ContentOf(Obj(SelectSeq(document.fields, LAMBDA p : p.k \notin ExcludeFields)))

\* Two structured documents with the same signable keys and values.
SameSignable(d1, d2) ==
  /\ Structured(d1) /\ Structured(d2)
  /\ Signable(d1) = Signable(d2)

\* verifySignature was given the envelope as signDocument returned it.
EnvelopeKept == IsCall("verifySignature") /\ last.replaced = "keep"

\* signDocument was given a raw or structured document and a valid key.
SignableCall ==
  /\ IsCall("signDocument")
  /\ last.document.kind \in {"string", "object"}
  /\ last.privateKey \in {"P1", "P2"}

\* C12: for every raw or structured document D and valid key pair K,
\* signDocument(D, K.privateKey) returns an envelope, and verifySignature of
\* D with that envelope returns valid, documentIntact and signatureValid all
\* true.
C12_SignVerifyRoundTrip ==
  /\ SignableCall => ~last.out.threw /\ last.out.success
  /\ (EnvelopeKept /\ last.document = last.signed) =>
       /\ last.out.valid
       /\ last.out.documentIntact
       /\ last.out.signatureValid

\* The second half of C12 alone: an envelope that signDocument did return
\* verifies against the document it was made for.
ReturnedEnvelopeVerifies ==
  (EnvelopeKept /\ last.document = last.signed) =>
    /\ last.out.valid
    /\ last.out.documentIntact
    /\ last.out.signatureValid

\* C13: a change of any signable field after signing, a field nested inside
\* a top-level field included, changes the recomputed hash: verifySignature of
\* the changed document with the envelope answers DOCUMENT_MODIFIED, and
\* calculateDocumentHash, which verify() compares with the stored hash, gives
\* the changed document another hash.
C13_AnyChangeDetected ==
  /\ (EnvelopeKept /\ Structured(last.signed) /\ Structured(last.document)
        /\ ~SameSignable(last.signed, last.document)) =>
       /\ last.out.reason = "DOCUMENT_MODIFIED"
       /\ ~last.out.documentIntact
  /\ (IsCall("calculateDocumentHash") /\ HasReceipts(last.document)) =>
       \A other \in Drafts :
         (HasReceipts(other) /\ ~SameSignable(last.document, other)) =>
           CalculateDocumentHash(other) # last.out

\* The envelope verifies the presented document under the key that signed
\* it, and its signerPublicKey is the public key of another pair.
KeyReplaced ==
  /\ HashRecomputed /\ HashesEqual
  /\ AlgorithmKnown(env, last.envelope.algorithm)
  /\ last.envelope.digitalSignature.kind = "sig"
  /\ last.envelope.digitalSignature.hash = last.envelope.documentHash
  /\ last.envelope.signerPublicKey \in {"K1", "K2"}
  /\ last.envelope.signerPublicKey # last.envelope.digitalSignature.key

\* C14: verifySignature of an unmodified document with an otherwise valid
\* envelope whose signerPublicKey is another pair's public key returns
\* valid = false with reason INVALID_SIGNATURE.
C14_ReplacedKeyInvalidSignature ==
  KeyReplaced =>
    /\ ~last.out.valid
    /\ last.out.reason = "INVALID_SIGNATURE"
    /\ last.out.documentIntact
    /\ ~last.out.signatureValid

C14_Witness ==
  /\ KeyReplaced
  /\ last.envelope.signerPublicKey = "K2"
  /\ last.out.reason = "INVALID_SIGNATURE"

\* C15: canonicalization does not depend on the order in which the fields
\* were inserted, at the top level or inside a nested mapping: structured
\* documents with the same signable keys and values get the same canonical
\* string, and documents with the same keys and values the same hash.
C15_CanonicalOrderInvariant ==
  /\ (IsCall("canonicalizeDocument") /\ Structured(last.document)) =>
       \A other \in Drafts :
         SameSignable(last.document, other) =>
           /\ CanonicalizeDocument(other) = last.out
           /\ Sha256(CanonicalizeDocument(other)) = Sha256(last.out)
  /\ (IsCall("createDocumentHash") /\ Structured(last.document)) =>
       \A other \in Drafts :
         SameContent(last.document, other) => CreateDocumentHash(other) = last.out

\* A document reordered at both levels got the canonical string of the
\* original, the nested mapping's fields included.
C15_Witness ==
  /\ IsCall("canonicalizeDocument")
  /\ last.document = ObjDoc(NestedReordered)
  /\ last.out = CanonicalizeDocument(ObjDoc(Nested))
  /\ \E i \in 1..Len(last.out) : last.out[i] = "Taxi"

C15_WitnessHash ==
  /\ IsCall("createDocumentHash")
  /\ last.document = ObjDoc(FlightReordered)
  /\ last.out = CreateDocumentHash(ObjDoc(Flight))

\* C16: signDocument hashes the canonicalized document: the documentHash of
\* a structured document is the SHA-256 of canonicalizeDocument(document), so
\* an envelope signed over one document verifies as intact against a document
\* that differs from it only in non-signable fields.
C16_SignHashesCanonical ==
  /\ (IsCall("signDocument") /\ ~last.out.threw /\ Structured(last.document)) =>
       last.out.documentHash = Sha256(CanonicalizeDocument(last.document))
  /\ (EnvelopeKept /\ SameSignable(last.signed, last.document)) =>
       /\ last.out.documentIntact
       /\ last.out.valid

\* C17: canonicalization is idempotent: canonicalizeDocument applied to the
\* string canonicalizeDocument(D) returns that same string.
C17_CanonicalizeIdempotent ==
  (/\ IsCall("canonicalizeDocument")
   /\ last.document.kind = "string"
   /\ \E d \in Drafts : last.document.text = CanonicalizeDocument(d)) =>
    last.out = last.document.text

\* ---- properties of the certificate and timestamp checks ----------------
\* The record has a timestamp token.
HasToken == cfg.timestampToken # NoVal /\ cfg.timestampToken # ""

\* C18: verify() checks a timestamp token that is present: when the hash
\* embedded in the token does not match the record's, the appended entry has
\* timestampValid = false and result 'invalid'.
C18_ForgedTokenRejected ==
  (/\ CleanVerify /\ Returned("verify")
   /\ HasToken
   /\ EmbeddedHash(cfg.timestampToken) # cfg.documentHash) =>
    /\ ~LastOf(Cur.verifications).timestampValid
    /\ LastOf(Cur.verifications).result = "invalid"

\* C19: in verify() certificateValid is true when the record has no
\* certificate data (no validTo) and otherwise true exactly when validTo is
\* later than now; a record without certificate whose other three checks
\* pass verifies 'valid'.
C19_NoCertificateIsValid ==
  (CleanVerify /\ Returned("verify")) =>
    /\ LastOf(Cur.verifications).certificateValid =
         (cfg.validTo = NoDate \/ cfg.validTo > now)
    /\ (/\ cfg.validTo = NoDate
        /\ last.ev.signatureValid /\ last.ev.documentIntact
        /\ last.ev.timestampValid) =>
         LastOf(Cur.verifications).result = "valid"

\* ---- properties of expiry ----------------------------------------------
CertificateExpired == cfg.validTo # NoDate /\ cfg.validTo < now

\* C20: expiry is derived, never stored: no verify(), revoke() or read of
\* isValid / isExpiringSoon leaves the status 'expired', in a document or in
\* the store, and a read changes nothing; isValid is false whenever the
\* status is 'revoked' or 'expired' or the certificate's validTo is earlier
\* than now, and true only when the status is 'valid'.
C20_ExpiryDerived ==
  /\ db.status # "expired"
  /\ \A h \in Copies : mem[h].status # "expired"
  /\ IsCall("read") =>
       /\ Cur = last.pre /\ db = last.preStored
       /\ (Cur.status \in {"revoked", "expired"} \/ CertificateExpired) => ~last.isValid
       /\ last.isValid => Cur.status = "valid"
  /\ \A s \in Statuses :
       /\ s \in {"revoked", "expired"} => ~IsValid(s, cfg.validTo, now)
       /\ CertificateExpired => ~IsValid(s, cfg.validTo, now)
       /\ IsValid(s, cfg.validTo, now) => s = "valid"

\* A record verified 'valid' whose certificate has since run out reads as not
\* valid, its stored status still 'valid'.
C20_Witness ==
  /\ IsCall("read")
  /\ CertificateExpired
  /\ Cur.status = "valid" /\ db.status = "valid"
  /\ ~last.isValid

C20_WitnessValid ==
  /\ IsCall("read")
  /\ last.isValid /\ last.isExpiringSoon

\* ---- properties of record creation -------------------------------------
\* C21: the collection never holds two SignatureRecords with the same
\* (document, signer), concurrent creations for one pair included, and a
\* record just created has status 'pending_verification'.
C21_OneRecordPerPair ==
  /\ \A i \in 1..Len(coll.docs), j \in 1..Len(coll.docs) :
       (coll.docs[i].document = coll.docs[j].document
          /\ coll.docs[i].signer = coll.docs[j].signer) => i = j
  /\ (IsCall("create") /\ ~last.threw) =>
       /\ Len(coll.docs) = last.preLen + 1
       /\ LastOf(coll.docs).document = last.document
       /\ LastOf(coll.docs).signer = last.signer
       /\ LastOf(coll.docs).status = "pending_verification"

\* Two handlers built a record for the same pair while the collection held
\* none; one was stored, the other rejected.
C21_Witness ==
  /\ IsCall("create") /\ last.threw
  /\ \E h \in Copies, g \in Copies :
       /\ h # g
       /\ coll.drafts[h].state = "saved" /\ coll.drafts[g].state = "rejected"
       /\ coll.drafts[h].document = coll.drafts[g].document
       /\ coll.drafts[h].signer = coll.drafts[g].signer
       /\ coll.drafts[h].preparedAt = 0 /\ coll.drafts[g].preparedAt = 0
  /\ Len(coll.docs) = 1

\* ---- properties of the timestamp token ---------------------------------
\* C22: verifyTimestamp never throws; it is true for the token
\* generateTimestamp returned and the data it was generated for, and false
\* for a token whose embedded hash was altered, for the issued token with
\* other data, and for a token that cannot be decoded.
C22_TimestampRoundTrip ==
  IsCall("verifyTimestamp") =>
    /\ ~last.out.threw
    /\ (last.token = last.issued /\ last.data = last.issuedFor) => last.out.value
    /\ (last.token = last.issued /\ last.data # last.issuedFor) => ~last.out.value
    /\ (/\ last.token.kind = "base64json"
        /\ last.token.timestamp = last.issued.timestamp
        /\ last.token.hash # last.issued.hash
        /\ last.data = last.issuedFor) => ~last.out.value
    /\ last.token \in {NotAString, NotJson, JsonNull, JsonEmpty} => ~last.out.value

C22_Witness ==
  /\ IsCall("verifyTimestamp")
  /\ last.token = last.issued /\ last.data = last.issuedFor
  /\ last.out.value

C22_WitnessAltered ==
  /\ IsCall("verifyTimestamp")
  /\ last.token.kind = "base64json"
  /\ last.token.hash # last.issued.hash
  /\ last.data = last.issuedFor
  /\ ~last.out.value

C22_WitnessUndecodable ==
  /\ IsCall("verifyTimestamp")
  /\ last.token = NotJson
  /\ ~last.out.value /\ ~last.out.threw

\* C23: the algorithm of every envelope signDocument returns is one of the
\* values the record's algorithm field accepts, so the envelope can be stored
\* as a SignatureRecord.
C23_AlgorithmStorable ==
  (IsCall("signDocument") /\ ~last.out.threw) =>
    last.out.signature.algorithm \in AlgorithmEnum

\* ---- properties of the login handler -----------------------------------
LoginOf(email) == last.op = "login" /\ last.email = email

FifthSent ==
  /\ LoginOf("known") /\ last.password = "wrong" /\ last.pre.isActive
  /\ acct.run.sent = 5

FifthPassed ==
  /\ LoginOf("known") /\ last.answer.update = "inc"
  /\ acct.run.passed = 5

LockedAtRequest ==
  /\ LoginOf("known") /\ last.pre.isActive /\ IsLocked(last.pre, last.t)

Locks == /\ acct.user.lockUntil = last.t + LockTime
         /\ IsLocked(acct.user, last.t)

\* C24 as stated: the fifth wrong-password request in a row, from
\* loginAttempts = 0 and no lock, leaves lockUntil two hours ahead, and a
\* request made while the lock holds is answered 423 ACCOUNT_LOCKED.
C24_FiveFailuresLock ==
  /\ FifthSent => Locks
  /\ LockedAtRequest => last.answer.status = 423

\* C24 amended: the fifth wrong-password request in a row that the rate
\* limiter lets through, from loginAttempts = 0 and no lock, leaves lockUntil
\* two hours ahead; a request made while the lock holds is answered 423
\* ACCOUNT_LOCKED when the rate limiter lets it through and 429 by the
\* limiter when it does not.
C24_FivePassedFailuresLock ==
  /\ FifthPassed => Locks
  /\ LockedAtRequest =>
       last.answer.status = IF Blocked(acct.limiter) THEN 429 ELSE 423

C24_Witness == FifthPassed /\ Locks

C24_WitnessLocked == LockedAtRequest /\ last.answer.status = 423

C24_WitnessLimited == LockedAtRequest /\ last.answer.status = 429

Unchanged == acct.user = last.pre

TokenOnlyWhenAllowed ==
  (last.op = "login" /\ last.answer.token) =>
     /\ last.email = "known" /\ last.pre.isActive
     /\ ~IsLocked(last.pre, last.t)
     /\ last.password = "right"
     /\ last.answer.status = 200

\* C25 as stated: a token is issued only for an existing, active account
\* that is not locked at the time of the request and whose password matches;
\* a request with the right password made while the lock holds is answered
\* 423 with no token and leaves loginAttempts and lockUntil as they were.
C25_TokenOnlyUnlocked ==
  /\ TokenOnlyWhenAllowed
  /\ (LockedAtRequest /\ last.password = "right") =>
        /\ last.answer.status = 423
        /\ ~last.answer.token /\ Unchanged

\* C25 amended: a token is issued only for an existing, active account that
\* is not locked at the time of the request and whose password matches; a
\* request with the right password made while the lock holds is answered 423,
\* or 429 by the rate limiter, with no token, and leaves loginAttempts and
\* lockUntil as they were.
C25_TokenOnlyUnlockedOrLimited ==
  /\ TokenOnlyWhenAllowed
  /\ (LockedAtRequest /\ last.password = "right") =>
        /\ last.answer.status \in {423, 429}
        /\ ~last.answer.token /\ Unchanged

C25_Witness ==
  LockedAtRequest /\ last.password = "right" /\ last.answer.status = 423

C25_WitnessToken == last.op = "login" /\ last.answer.token

LockExpired == last.pre.lockUntil # NoDate /\ last.pre.lockUntil < last.t

\* C26: a successful login leaves loginAttempts 0, lockUntil unset and
\* lastLogin at the time of the login; the first failed login after a lock
\* has run out leaves loginAttempts 1 and lockUntil unset, and a failed login
\* sets a new lock only as the fifth or later of its count.
C26_ResetAndFreshRun ==
  /\ (last.op = "login" /\ last.answer.status = 200) =>
        /\ acct.user.loginAttempts = 0
        /\ acct.user.lockUntil = NoDate
        /\ acct.user.lastLogin = last.t
  /\ (last.op = "login" /\ last.answer.update = "inc") =>
        /\ LockExpired =>
             acct.user.loginAttempts = 1 /\ acct.user.lockUntil = NoDate
        /\ acct.user.lockUntil # NoDate => acct.user.loginAttempts >= LockAfter

C26_Witness ==
  /\ last.op = "login" /\ last.answer.update = "inc" /\ LockExpired
  /\ acct.user.loginAttempts = 1

C26_WitnessReset ==
  /\ last.op = "login" /\ last.answer.status = 200
  /\ last.pre.loginAttempts > 0 /\ acct.user.loginAttempts = 0

C26_WitnessLockedAgain ==
  /\ last.op = "login" /\ last.answer.update = "inc"
  /\ acct.user.lockUntil # NoDate /\ acct.user.lastLogin = NoDate
  /\ last.t > LockTime

\* C27: whatever the interleaving of concurrent failed logins, a stored
\* loginAttempts of 5 or more comes with a stored lockUntil.
C27_FiveAttemptsLocked ==
  acct.user.loginAttempts >= LockAfter => acct.user.lockUntil # NoDate

\* ---- properties of the expense -----------------------------------------
StatusChanged ==
  /\ last.op \in DOMAIN StatusMethods
  /\ exp.doc.status # last.pre.status

\* C28: a call of submit, approve, reject or sign that changes the status
\* appends exactly one history entry, whose newStatus is the new status and
\* whose previousStatus is the status the expense had before the call.
C28_HistoryRecordsTransition ==
  StatusChanged =>
    /\ Len(exp.doc.history) = Len(last.pre.history) + 1
    /\ IsPrefix(last.pre.history, exp.doc.history)
    /\ LastOf(exp.doc.history).newStatus = exp.doc.status
    /\ LastOf(exp.doc.history).previousStatus = last.pre.status

Before(status) ==
  IF status = "signed" THEN {"approved"}
  ELSE IF status \in {"approved", "rejected"} THEN {"under_review"}
  ELSE IF status = "submitted" THEN {"draft"}
  ELSE StatusEnum

\* C29: a status of 'signed' is reached only from 'approved', 'approved' and
\* 'rejected' only from 'under_review', 'submitted' only from 'draft'.
C29_TransitionsOrdered ==
  StatusChanged => last.pre.status \in Before(exp.doc.status)

\* ---- properties of lastVerification ------------------------------------
ReadLast == last.op = "lastVerification"

Newest(e, s) ==
  /\ \E i \in 1..Len(s) : s[i] = e
  /\ \A i \in 1..Len(s) : s[i].verifiedAt <= e.verifiedAt

\* C30: reading lastVerification returns an entry with the greatest
\* verifiedAt, null when there is none, and leaves the document's
\* verifications as they were, in the order they were appended.
C30_LastVerificationPure ==
  ReadLast =>
    /\ last.found = (Len(last.pre) > 0)
    /\ last.found => Newest(last.value, last.pre)
    /\ mem[last.h].verifications = last.pre
====
